---------------------------- MODULE Spec2Model ----------------------------
(***************************************************************************)
(* Model of the user-mapping helpers of hotosm_auth (the Mapping Resolver) *)
(* in its two adapters, integrations/fastapi.py and integrations/django.py,*)
(* working on the table hanko_user_mappings that the migration             *)
(* hotosm_auth_django/migrations/0001_initial.py creates.                  *)
(*                                                                         *)
(* Each caller is one request (a coroutine, a thread or another process)   *)
(* running one helper at a time.  A helper is cut into steps at its SQL    *)
(* statements and at the awaits of the caller-supplied callbacks, the      *)
(* places where another caller can run in between; a step runs from one    *)
(* of them to the next.  A statement is atomic                             *)
(* and its effect is visible to the other callers at once (autocommit);    *)
(* the database enforces the table's constraints on every INSERT.          *)
(* An application imports one of the two integration modules; `framework`  *)
(* says which, and all its callers run that module's helpers.              *)
(* The timestamps created_at / updated_at are not modelled: no statement   *)
(* of the helpers reads them.                                              *)
(***************************************************************************)
EXTENDS Integers, FiniteSets, Sequences, TLC

\* Number of concurrent callers (requests in flight at the same time).
NumCallers == 2

Callers == 1..NumCallers

\* Python's None, and the values a caller may pass/obtain.
None == "None"

\* hanko_user.id values (subject identifiers) and application names.
HankoUserIds == {"abc", "xyz"}
AppNames == {"fair", "drone-tm"}

\* What the caller-supplied callbacks can return.
EmailLookupReturns == {None, "u_email"}
UserCreatorReturns == {"", "u_new", "u_new2"}
GeneratorReturns == {"g1"}
\* app_user_id arguments of create_user_mapping.
ManualAppUserIds == {"u_manual"}

\* The callbacks, as names for the record of invocations.
EMAIL_LOOKUP == "email_lookup_fn"
USER_CREATOR == "user_creator_fn"
ID_GENERATOR == "user_id_generator"

\* Python truthiness of an Optional[str]: None and "" are falsy.
Truthy(x) == x \notin {None, ""}

VARIABLES
    framework,        \* the integration module the application imports (fixed)
    table,            \* hanko_user_mappings: a set of rows
    calls,            \* calls[c]: the frame of caller c's current (or finished) call
    request,          \* the HTTP request being handled: its Authorization header and cookies
    handling,         \* the frame of the dependency / view handling `request`
    cookie_secret,    \* config.cookie_secret, the secret of the CookieCrypto singleton
    cookie_jar,       \* the browser's `osm_connection` cookie
    signing_key_set,  \* the JWKS cached by the JWTValidator singleton
    jwks_endpoint,    \* the key identifiers the provider's JWKS endpoint serves
    getkey,           \* getkey[c]: the frame of caller c's GetKey call on the JWKS cache
    app_users,        \* the application's users that user_creator_fn has created (their IDs)
    singletons,       \* django: the module globals _jwt_validator and _cookie_crypto
    accessor          \* accessor[c]: the frame of caller c's get_jwt_validator / get_cookie_crypto

\* The state of the mapping helpers, and the state of authentication.
mapping_vars == <<framework, table, calls, app_users>>
singleton_vars == <<singletons, accessor>>
auth_vars == <<request, handling, cookie_secret, cookie_jar, signing_key_set, jwks_endpoint, getkey,
               singleton_vars>>

vars == <<framework, table, calls, request, handling, cookie_secret, cookie_jar,
          signing_key_set, jwks_endpoint, getkey, app_users, singletons, accessor>>

Row(hanko_user_id, app_user_id, app_name) ==
    [hanko_user_id |-> hanko_user_id, app_user_id |-> app_user_id, app_name |-> app_name]

-----------------------------------------------------------------------------
(* The schema: constraints of hanko_user_mappings.                         *)

\* hanko_user_id is declared primary_key=True: no two rows share it.
primary_key_violated(t, row) ==
    \E r \in t : r.hanko_user_id = row.hanko_user_id

\* UniqueConstraint(fields=('hanko_user_id', 'app_name'), name='uq_hanko_app').
uq_hanko_app_violated(t, row) ==
    \E r \in t : r.hanko_user_id = row.hanko_user_id /\ r.app_name = row.app_name

\* The table without its constraints: no INSERT is ever rejected.
IntegrityError_unconstrained(t, row) ==
    FALSE

\* An INSERT raises IntegrityError exactly when a constraint is violated.
IntegrityError(t, row) ==
    primary_key_violated(t, row) \/ uq_hanko_app_violated(t, row)

\* An INSERT whose row never reaches the table.
InsertRow_lost(t, row) ==
    t

\* An INSERT that replaces the user's row (INSERT ... ON CONFLICT DO UPDATE).
InsertRow_upsert(t, row) ==
    {r \in t : r.hanko_user_id # row.hanko_user_id} \cup {row}

\* INSERT INTO hanko_user_mappings (...) VALUES (...): the table afterwards.
InsertRow(t, row) ==
    IF IntegrityError(t, row) THEN t ELSE t \cup {row}

\* SELECT app_user_id ... WHERE hanko_user_id = %s AND app_name = %s: the result set.
SelectAppUserId(t, hanko_user_id, app_name) ==
    {r.app_user_id : r \in {x \in t : x.hanko_user_id = hanko_user_id /\ x.app_name = app_name}}


-----------------------------------------------------------------------------
(* Call frames.                                                            *)

FASTAPI == "fastapi"
DJANGO == "django"
GET_MAPPED_USER_ID == "get_mapped_user_id"
CREATE_USER_MAPPING == "create_user_mapping"

\* How a finished call ended.
MAPPING_FOUND == "MAPPING_FOUND"            \* row found, its app_user_id returned
MAPPING_CREATED == "MAPPING_CREATED"        \* row inserted
HTTP_403_FORBIDDEN == "HTTP_403_FORBIDDEN"  \* fastapi: HTTPException(403) raised
RETURNED_NONE == "returned None"            \* django: None returned
VALUE_ERROR == "ValueError"                 \* django: generator missing
INTEGRITY_ERROR == "IntegrityError"         \* the INSERT's exception, propagated

\* The optional callbacks a caller passes: TRUE when supplied, FALSE when None.
AllCallbacks ==
    [email_lookup_fn : BOOLEAN, user_creator_fn : BOOLEAN, user_id_generator : BOOLEAN]

\* The user whose concurrent requests Spec follows.
SameUser == {"abc"}

\* Callers that pass at most a user_id_generator.
GeneratorOnly ==
    {k \in AllCallbacks : ~k.email_lookup_fn /\ ~k.user_creator_fn}

\* A frame: the arguments (a callback is TRUE when supplied), the locals
\* (existing_user_id and created_user_id hold what the callbacks returned), the
\* callbacks invoked so far, and how the call ended.
Idle ==
    [pc |-> "idle", fn |-> None,
     hanko_user_id |-> None, app_name |-> None, auto_create |-> FALSE,
     email_lookup_fn |-> FALSE, user_creator_fn |-> FALSE, user_id_generator |-> FALSE,
     existing_user_id |-> None, created_user_id |-> None, new_user_id |-> None,
     invoked |-> {}, outcome |-> None, value |-> None]

\* The frame of a call that has ended with `outcome`, returning `value` (None when it
\* returned nothing or raised).  Of the frame, the function, the pair it was called
\* for and what it invoked are kept.
Done(f, outcome, value) ==
    [Idle EXCEPT !.pc = "done", !.fn = f.fn,
                 !.hanko_user_id = f.hanko_user_id, !.app_name = f.app_name,
                 !.invoked = f.invoked, !.outcome = outcome, !.value = value]

-----------------------------------------------------------------------------
(* fastapi.get_mapped_user_id                                              *)

\* `if existing_user_id: new_user_id = existing_user_id` (new_user_id was None).
AfterEmailLookup(existing_user_id) ==
    IF Truthy(existing_user_id) THEN existing_user_id ELSE None

\* The creator called whenever it is supplied, whatever the lookup found.
CallsUserCreator_always(new_user_id, user_creator_fn) ==
    user_creator_fn

\* `if not new_user_id and user_creator_fn`
CallsUserCreator(new_user_id, user_creator_fn) ==
    ~Truthy(new_user_id) /\ user_creator_fn

\* `if not new_user_id: if user_id_generator`
CallsGenerator(new_user_id, user_id_generator) ==
    ~Truthy(new_user_id) /\ user_id_generator

\* The fallback: the generator's ID, or hanko_user.id.
Fallback(new_user_id, user_id_generator, generated, hanko_user_id) ==
    IF ~Truthy(new_user_id)
    THEN IF user_id_generator THEN generated ELSE hanko_user_id
    ELSE new_user_id

\* Where a call that creates a mapping next suspends, given new_user_id so far: at
\* the await of user_creator_fn if it is to be called, else at the INSERT.
PcAfterLookup(new_user_id, user_creator_fn) ==
    IF CallsUserCreator(new_user_id, user_creator_fn) THEN "user_creator" ELSE "insert"

\* Where it suspends after the SELECT: at the await of email_lookup_fn if supplied.
PcAfterSelect(email_lookup_fn, user_creator_fn) ==
    IF email_lookup_fn THEN "email_lookup" ELSE PcAfterLookup(None, user_creator_fn)

\* auto_create tested before the row.
AfterSelect_auto_create_first(rows, auto_create) ==
    IF ~auto_create THEN "raise"
    ELSE IF rows # {} THEN "return"
    ELSE "create"

\* auto_create not tested.
AfterSelect_always_create(rows, auto_create) ==
    IF rows # {} THEN "return" ELSE "create"

\* What the code does with the SELECT's row: "return" it, "raise" for a missing
\* mapping without auto_create, or go on to "create" one.
AfterSelect(rows, auto_create) ==
    IF rows # {} THEN "return"
    ELSE IF ~auto_create THEN "raise"
    ELSE "create"

\* A caller calls get_mapped_user_id(hanko_user, db_conn, app_name, auto_create,
\* email_lookup_fn, user_creator_fn, user_id_generator); `Users` are the users the
\* callers act for and `Callbacks` the callback combinations they pass.
fastapi_get_mapped_user_id(c, Users, Callbacks) ==
    /\ framework = FASTAPI
    /\ calls[c].pc = "idle"
    /\ \E hanko_user_id \in Users, app_name \in AppNames, auto_create \in BOOLEAN,
          k \in Callbacks :
         calls' = [calls EXCEPT ![c] =
                     [Idle EXCEPT !.pc = "select", !.fn = GET_MAPPED_USER_ID,
                                  !.hanko_user_id = hanko_user_id, !.app_name = app_name,
                                  !.auto_create = auto_create,
                                  !.email_lookup_fn = k.email_lookup_fn,
                                  !.user_creator_fn = k.user_creator_fn,
                                  !.user_id_generator = k.user_id_generator]]
    /\ UNCHANGED <<framework, table, app_users, auth_vars>>

\* SELECT, `if row: return`, `if not auto_create: raise HTTPException(403)`.
fastapi_select(c) ==
    LET f == calls[c]
        rows == SelectAppUserId(table, f.hanko_user_id, f.app_name)
        next == AfterSelect(rows, f.auto_create)
    IN /\ framework = FASTAPI
       /\ f.pc = "select"
       /\ IF next = "return"
          THEN \E app_user_id \in rows :
                 calls' = [calls EXCEPT ![c] = Done(f, MAPPING_FOUND, app_user_id)]
          ELSE IF next = "raise"
          THEN calls' = [calls EXCEPT ![c] = Done(f, HTTP_403_FORBIDDEN, None)]
          ELSE calls' = [calls EXCEPT ![c] =
                           [f EXCEPT !.pc = PcAfterSelect(f.email_lookup_fn, f.user_creator_fn)]]
       /\ UNCHANGED <<framework, table, app_users, auth_vars>>

\* `existing_user_id = await email_lookup_fn(db_conn, hanko_user.email)` and
\* `if existing_user_id: new_user_id = existing_user_id`.
fastapi_email_lookup(c) ==
    LET f == calls[c] IN
    /\ f.pc = "email_lookup"
    /\ \E existing_user_id \in EmailLookupReturns :
         LET new_user_id == AfterEmailLookup(existing_user_id) IN
         calls' = [calls EXCEPT ![c] =
                     [f EXCEPT !.pc = PcAfterLookup(new_user_id, f.user_creator_fn),
                               !.existing_user_id = existing_user_id,
                               !.new_user_id = new_user_id,
                               !.invoked = @ \cup {EMAIL_LOOKUP}]]
    /\ UNCHANGED <<framework, table, app_users, auth_vars>>

\* The application's users once user_creator_fn has returned `created`: the callback
\* has created the user whose ID it returns (a falsy return is no user).
CreateUser(users, created) ==
    IF Truthy(created) THEN users \cup {created} ELSE users

\* The application's users once the INSERT of the mapping has raised: the user that
\* the call had created through db_conn is still there, or is gone when the caller
\* rolls the connection's transaction back (the helper neither commits nor rolls back).
AfterFailedInsert(users, created) ==
    IF Truthy(created) THEN {users, users \ {created}} ELSE {users}

\* `new_user_id = await user_creator_fn(db_conn, hanko_user)`: the callback creates an
\* application user with an ID no other user has, or returns a falsy value.
fastapi_user_creator(c) ==
    LET f == calls[c] IN
    /\ f.pc = "user_creator"
    /\ \E created \in UserCreatorReturns :
         /\ Truthy(created) => created \notin app_users
         /\ calls' = [calls EXCEPT ![c] =
                        [f EXCEPT !.pc = "insert", !.created_user_id = created,
                                  !.new_user_id = created,
                                  !.invoked = @ \cup {USER_CREATOR}]]
         /\ app_users' = CreateUser(app_users, created)
    /\ UNCHANGED <<framework, table, auth_vars>>

\* The fallback and the INSERT; an IntegrityError of the INSERT propagates.
fastapi_insert(c) ==
    LET f == calls[c] IN
    /\ framework = FASTAPI
    /\ f.pc = "insert"
    /\ \E generated \in GeneratorReturns :
         LET new_user_id == Fallback(f.new_user_id, f.user_id_generator, generated, f.hanko_user_id)
             g == [f EXCEPT !.invoked =
                      IF CallsGenerator(f.new_user_id, f.user_id_generator)
                      THEN @ \cup {ID_GENERATOR} ELSE @]
             row == Row(f.hanko_user_id, new_user_id, f.app_name)
         IN /\ table' = InsertRow(table, row)
            /\ calls' = [calls EXCEPT ![c] =
                           IF IntegrityError(table, row)
                           THEN Done(g, INTEGRITY_ERROR, None)
                           ELSE Done(g, MAPPING_CREATED, new_user_id)]
            /\ app_users' \in IF IntegrityError(table, row)
                              THEN AfterFailedInsert(app_users, f.created_user_id)
                              ELSE {app_users}
    /\ UNCHANGED <<framework, auth_vars>>

-----------------------------------------------------------------------------
(* django.get_mapped_user_id                                               *)

\* The generator not tested: a mapping created whenever auto_create is set.
DjangoAfterSelect_generator_untested(rows, auto_create, user_id_generator) ==
    IF rows # {} THEN "return"
    ELSE IF ~auto_create THEN "none"
    ELSE "create"

\* What the django code does with the SELECT's row: "return" it, return "none",
\* "raise" ValueError, or go on to "create" the mapping.
DjangoAfterSelect(rows, auto_create, user_id_generator) ==
    IF rows # {} THEN "return"
    ELSE IF ~auto_create THEN "none"
    ELSE IF ~user_id_generator THEN "raise"
    ELSE "create"

\* A caller calls get_mapped_user_id(hanko_user, app_name, auto_create, user_id_generator).
django_get_mapped_user_id(c, Users) ==
    /\ framework = DJANGO
    /\ calls[c].pc = "idle"
    /\ \E hanko_user_id \in Users, app_name \in AppNames, auto_create \in BOOLEAN,
          user_id_generator \in BOOLEAN :
         calls' = [calls EXCEPT ![c] =
                     [Idle EXCEPT !.pc = "select", !.fn = GET_MAPPED_USER_ID,
                                  !.hanko_user_id = hanko_user_id, !.app_name = app_name,
                                  !.auto_create = auto_create,
                                  !.user_id_generator = user_id_generator]]
    /\ UNCHANGED <<framework, table, app_users, auth_vars>>

\* SELECT, `if row: return`, `if not auto_create: return None`,
\* `if not user_id_generator: raise ValueError`, `new_user_id = user_id_generator()`.
django_select(c) ==
    LET f == calls[c]
        rows == SelectAppUserId(table, f.hanko_user_id, f.app_name)
        next == DjangoAfterSelect(rows, f.auto_create, f.user_id_generator)
    IN /\ framework = DJANGO
       /\ f.pc = "select"
       /\ IF next = "return"
          THEN \E app_user_id \in rows :
                 calls' = [calls EXCEPT ![c] = Done(f, MAPPING_FOUND, app_user_id)]
          ELSE IF next = "none"
          THEN calls' = [calls EXCEPT ![c] = Done(f, RETURNED_NONE, None)]
          ELSE IF next = "raise"
          THEN calls' = [calls EXCEPT ![c] = Done(f, VALUE_ERROR, None)]
          ELSE \E generated \in GeneratorReturns :
                 calls' = [calls EXCEPT ![c] =
                             [f EXCEPT !.pc = "insert", !.new_user_id = generated,
                                       !.invoked = {ID_GENERATOR}]]
       /\ UNCHANGED <<framework, table, app_users, auth_vars>>

\* The INSERT of the auto-created mapping; an IntegrityError propagates.  The
\* generator is typed Callable[[], str], so str(new_user_id) is new_user_id.
django_insert(c) ==
    LET f == calls[c]
        row == Row(f.hanko_user_id, f.new_user_id, f.app_name)
    IN /\ framework = DJANGO
       /\ f.pc = "insert"
       /\ table' = InsertRow(table, row)
       /\ calls' = [calls EXCEPT ![c] =
                      IF IntegrityError(table, row)
                      THEN Done(f, INTEGRITY_ERROR, None)
                      ELSE Done(f, MAPPING_CREATED, f.new_user_id)]
       /\ UNCHANGED <<framework, app_users, auth_vars>>

-----------------------------------------------------------------------------
(* create_user_mapping: one INSERT, the same statement in both modules.    *)

\* The INSERT written with ON CONFLICT DO NOTHING: a duplicate is not reported and
\* the event is logged all the same.
create_user_mapping_on_conflict_do_nothing(c, Users) ==
    /\ calls[c].pc = "idle"
    /\ \E hanko_user_id \in Users, app_user_id \in ManualAppUserIds, app_name \in AppNames :
         LET f == [Idle EXCEPT !.fn = CREATE_USER_MAPPING,
                               !.hanko_user_id = hanko_user_id, !.app_name = app_name]
             row == Row(hanko_user_id, app_user_id, app_name)
         IN /\ table' = InsertRow(table, row)
            /\ calls' = [calls EXCEPT ![c] = Done(f, MAPPING_CREATED, None)]
    /\ UNCHANGED <<framework, app_users, auth_vars>>

\* create_user_mapping(hanko_user_id, app_user_id, app_name): the INSERT, then the
\* MAPPING_CREATED event (not reached when the INSERT raises).
create_user_mapping(c, Users) ==
    /\ calls[c].pc = "idle"
    /\ \E hanko_user_id \in Users, app_user_id \in ManualAppUserIds, app_name \in AppNames :
         LET f == [Idle EXCEPT !.fn = CREATE_USER_MAPPING,
                               !.hanko_user_id = hanko_user_id, !.app_name = app_name]
             row == Row(hanko_user_id, app_user_id, app_name)
         IN /\ table' = InsertRow(table, row)
            /\ calls' = [calls EXCEPT ![c] =
                           IF IntegrityError(table, row)
                           THEN Done(f, INTEGRITY_ERROR, None)
                           ELSE Done(f, MAPPING_CREATED, None)]
    /\ UNCHANGED <<framework, app_users, auth_vars>>

-----------------------------------------------------------------------------
\* The caller takes the result (or the exception) and is free for its next call.
Return(c) ==
    /\ calls[c].pc = "done"
    /\ calls' = [calls EXCEPT ![c] = Idle]
    /\ UNCHANGED <<framework, table, app_users, auth_vars>>

-----------------------------------------------------------------------------
(* Requests: the bearer token's transport.                                 *)

\* Python's None where the value is otherwise an object (a record here).
NoObject == [type |-> "NoneType"]

\* An Authorization header: its value is scheme ++ " " ++ param when `space`, else
\* scheme alone.  NoAuthorization is the header absent (and the empty value).
AuthorizationHeader(scheme, space, param) ==
    [scheme |-> scheme, space |-> space, param |-> param]

NoAuthorization == AuthorizationHeader("", FALSE, "")

\* str.lower() on the schemes that occur.
Lower(s) ==
    CASE s = "Bearer" -> "bearer"
      [] s = "Basic" -> "basic"
      [] OTHER -> s

\* The bearer tokens that requests carry (compact JWTs, and a string that is none).
Tokens ==
    {"jwt_valid", "jwt_expired", "jwt_expires_now", "jwt_bad_signature",
     "jwt_expired_bad_signature", "jwt_alg_none", "jwt_wrong_audience",
     "jwt_rotated_key", "jwt_no_sub", "garbage"}

\* Authorization headers of requests: none, `Bearer <token>` (also with an empty
\* token, and without the separator), the scheme in lower case, and another scheme.
AuthorizationHeaders ==
    {NoAuthorization, AuthorizationHeader("Bearer", FALSE, "")}
    \cup {AuthorizationHeader("Bearer", TRUE, t) : t \in Tokens \cup {""}}
    \cup {AuthorizationHeader("bearer", TRUE, "jwt_valid"),
          AuthorizationHeader("Basic", TRUE, "jwt_valid")}

\* Values of the `hanko` cookie: None when the request has no such cookie.
HankoCookies == {None, ""} \cup Tokens

\* A request, as far as the adapters read it: the Authorization header, the cookies
\* `hanko` and `osm_connection`, and (django) whether HankoAuthMiddleware has set
\* request.hotosm / request.hanko_user / request.osm_connection on it.
Request(authorization, hanko, osm_connection, middleware) ==
    [authorization |-> authorization,
     cookies |-> [hanko |-> hanko, osm_connection |-> osm_connection],
     middleware |-> middleware]

\* The bearer_scheme dependency, HTTPBearer(auto_error=False): the header split at its
\* first space into scheme and credentials; None unless both are non-empty and the
\* scheme is "bearer" in any case.
bearer_scheme(authorization) ==
    LET scheme == authorization.scheme
        credentials == IF authorization.space THEN authorization.param ELSE ""
    IN IF scheme = "" \/ credentials = "" THEN NoObject
       ELSE IF Lower(scheme) # "bearer" THEN NoObject
       ELSE [scheme |-> scheme, credentials |-> credentials]

\* fastapi.get_token_from_request(request, credentials)
fastapi_get_token_from_request(req) ==
    LET credentials == bearer_scheme(req.authorization) IN
    IF credentials # NoObject /\ Lower(credentials.scheme) = "bearer"
    THEN credentials.credentials
    ELSE req.cookies.hanko

\* django.get_token_from_request(request): auth_header.startswith("Bearer ") and
\* auth_header[7:]
django_get_token_from_request(req) ==
    LET auth_header == req.authorization IN
    IF auth_header.scheme = "Bearer" /\ auth_header.space
    THEN auth_header.param
    ELSE req.cookies.hanko

get_token_from_request(fw, req) ==
    IF fw = FASTAPI THEN fastapi_get_token_from_request(req)
    ELSE django_get_token_from_request(req)

-----------------------------------------------------------------------------
(* The JWKS cache of the JWTValidator (hotosm_auth.jwt_validator), after   *)
(* the specification's GetKey: the validator that init_auth /              *)
(* get_jwt_validator construct keeps one SigningKeySet.                    *)

\* Key identifiers: "k1" is the provider's signing key at start, "k2" the key it
\* rotates to; the JWKS documents the endpoint can serve.
Kids == {"k1", "k2"}
JwksDocuments == {{"k1"}, {"k1", "k2"}, {"k2"}}

\* The SigningKeySet: created empty at process start; a fetched set is unexpired
\* until its time-to-live has passed.
EmptyKeySet == [present |-> FALSE, expired |-> FALSE, keys |-> {}]
FreshKeySet(keys) == [present |-> TRUE, expired |-> FALSE, keys |-> keys]

\* How a GetKey call ends.
KEY == "key"
UNKNOWN_KEY_ERROR == "UnknownKeyError"
KEY_SOURCE_UNAVAILABLE_ERROR == "KeySourceUnavailableError"

\* A cached set served for as long as it holds the key, expired or not.
CacheHit_ignores_expiry(set, kid) ==
    set.present /\ kid \in set.keys

\* "the cached set is present, unexpired, and contains kid"
CacheHit(set, kid) ==
    set.present /\ ~set.expired /\ kid \in set.keys

\* "replace the cached set atomically": wholesale, no partial merge.
ReplaceKeySet(set, fetched) ==
    FreshKeySet(fetched)

\* "retry the lookup once against the fresh set"; UnknownKeyError if still absent.
RetryLookup(kid, fetched) ==
    IF kid \in fetched THEN KEY ELSE UNKNOWN_KEY_ERROR

\* A miss that always issues its own fetch.
OnMiss_always_fetch(in_flight) ==
    "fetch"

\* A miss while a fetch is in flight awaits that fetch's result instead of issuing
\* another ("coalesce into a single in-flight fetch").
OnMiss(in_flight) ==
    IF in_flight THEN "await" ELSE "fetch"

\* The frame of a GetKey call: the key identifier asked for, the fetches the call
\* has issued, and how it ended.
NoGetKey == [pc |-> "idle", kid |-> None, fetches |-> 0, outcome |-> None]

GetKeyDone(f, outcome) == [f EXCEPT !.pc = "done", !.outcome = outcome]

FetchInFlight == \E d \in Callers : getkey[d].pc = "fetch"

\* GetKey(kid) up to its return or its suspension: the frame it leaves.
GetKey(kid) ==
    LET f == [NoGetKey EXCEPT !.kid = kid] IN
    IF CacheHit(signing_key_set, kid) THEN GetKeyDone(f, KEY)
    ELSE IF OnMiss(FetchInFlight) = "await" THEN [f EXCEPT !.pc = "await"]
    ELSE [f EXCEPT !.pc = "fetch", !.fetches = 1]

\* The frames when the fetch of caller c has returned: c and the callers awaiting
\* the fetch continue with its result, the fetched document or the failure.
AfterFetch(c, ok, fetched) ==
    [d \in Callers |->
        IF d = c \/ getkey[d].pc = "await"
        THEN GetKeyDone(getkey[d],
                        IF ok THEN RetryLookup(getkey[d].kid, fetched)
                        ELSE KEY_SOURCE_UNAVAILABLE_ERROR)
        ELSE getkey[d]]

\* A validate_token call of some request asks the cache for the key `kid`.
get_key(c) ==
    /\ getkey[c].pc = "idle"
    /\ \E kid \in Kids : getkey' = [getkey EXCEPT ![c] = GetKey(kid)]
    /\ UNCHANGED <<mapping_vars, singleton_vars, request, handling, cookie_secret, cookie_jar,
                   signing_key_set, jwks_endpoint>>

\* The HTTP GET of the JWKS URL returns: the document replaces the cached set, or
\* the fetch has failed (network error, non-2xx, malformed JSON) and the cache stays.
jwks_fetch_returns(c) ==
    /\ getkey[c].pc = "fetch"
    /\ \E ok \in BOOLEAN :
         /\ signing_key_set' = IF ok THEN ReplaceKeySet(signing_key_set, jwks_endpoint)
                               ELSE signing_key_set
         /\ getkey' = AfterFetch(c, ok, jwks_endpoint)
    /\ UNCHANGED <<mapping_vars, singleton_vars, request, handling, cookie_secret, cookie_jar, jwks_endpoint>>

\* The caller of GetKey takes the key or the error.
get_key_returns(c) ==
    /\ getkey[c].pc = "done"
    /\ getkey' = [getkey EXCEPT ![c] = NoGetKey]
    /\ UNCHANGED <<mapping_vars, singleton_vars, request, handling, cookie_secret, cookie_jar,
                   signing_key_set, jwks_endpoint>>

\* The cached set's time-to-live passes.
ttl_expires ==
    /\ signing_key_set.present /\ ~signing_key_set.expired
    /\ signing_key_set' = [signing_key_set EXCEPT !.expired = TRUE]
    /\ UNCHANGED <<mapping_vars, singleton_vars, request, handling, cookie_secret, cookie_jar,
                   jwks_endpoint, getkey>>

\* The provider rotates its signing keys.
provider_rotates_keys ==
    /\ \E document \in JwksDocuments \ {jwks_endpoint} : jwks_endpoint' = document
    /\ UNCHANGED <<mapping_vars, singleton_vars, request, handling, cookie_secret, cookie_jar,
                   signing_key_set, getkey>>

-----------------------------------------------------------------------------
(* JWTValidator.validate_token (hotosm_auth.jwt_validator), after the      *)
(* specification's ValidateToken.                                          *)

TOKEN_EXPIRED_ERROR == "TokenExpiredError"
TOKEN_INVALID_ERROR == "TokenInvalidError"
AUTHENTICATION_ERROR == "AuthenticationError"

\* The configured allow-list of signature algorithms and the expected audience.
AllowedAlgorithms == {"RS256"}
JwtAudience == "hotosm"

\* A token in its segments: the header's alg and kid, the key whose private half
\* signed header and payload, and the payload's claims; exp is in seconds from the
\* time of validation.  Malformed is a string that does not parse into segments.
Malformed ==
    [wellformed |-> FALSE, alg |-> None, kid |-> None, signed_by |-> None,
     exp |-> 0, aud |-> None, sub |-> None, email |-> None]

ValidJwt ==
    [wellformed |-> TRUE, alg |-> "RS256", kid |-> "k1", signed_by |-> "k1",
     exp |-> 3600, aud |-> JwtAudience, sub |-> "abc", email |-> "abc@example.org"]

\* Step 1, parsing: the segments of the tokens that occur.
Decode(token) ==
    CASE token = "jwt_valid" -> ValidJwt
      [] token = "jwt_expired" -> [ValidJwt EXCEPT !.exp = -10]
      [] token = "jwt_expires_now" -> [ValidJwt EXCEPT !.exp = 0]
      [] token = "jwt_bad_signature" -> [ValidJwt EXCEPT !.signed_by = "attacker"]
      [] token = "jwt_expired_bad_signature" ->
            [ValidJwt EXCEPT !.exp = -10, !.signed_by = "attacker"]
      [] token = "jwt_alg_none" -> [ValidJwt EXCEPT !.alg = "none", !.signed_by = None]
      [] token = "jwt_wrong_audience" -> [ValidJwt EXCEPT !.aud = "other"]
      [] token = "jwt_rotated_key" -> [ValidJwt EXCEPT !.kid = "k2", !.signed_by = "k2"]
      [] token = "jwt_no_sub" -> [ValidJwt EXCEPT !.sub = None]
      [] OTHER -> Malformed

\* What validate_token did: the user it returned, or the exception it raised with
\* its message.  The specification does not give the texts of the messages.
NoValidation == [raised |-> None, message |-> None, user |-> NoObject]
Raised(kind, message) == [raised |-> kind, message |-> message, user |-> NoObject]
HankoUser(jwt) == [id |-> jwt.sub, email |-> jwt.email]
Verified(jwt) == [raised |-> None, message |-> None, user |-> HankoUser(jwt)]

\* Steps 1 and 2, before the key is asked for: structure and algorithm.  None when
\* the token passes them.
BeforeKey(jwt) ==
    IF ~jwt.wellformed THEN Raised(TOKEN_INVALID_ERROR, "Malformed token")
    ELSE IF jwt.alg = "none" \/ jwt.alg \notin AllowedAlgorithms
    THEN Raised(TOKEN_INVALID_ERROR, "Algorithm not allowed")
    ELSE NoValidation

\* Steps 3 to 7, given how GetKey ended: key resolution, signature, exp strictly in
\* the future, audience, the subject claim, the identity.
AfterKey(jwt, key) ==
    IF key # KEY THEN Raised(TOKEN_INVALID_ERROR, "Signing key not found")
    ELSE IF jwt.signed_by # jwt.kid THEN Raised(TOKEN_INVALID_ERROR, "Signature verification failed")
    ELSE IF ~(jwt.exp > 0) THEN Raised(TOKEN_EXPIRED_ERROR, "Signature has expired")
    ELSE IF jwt.aud # JwtAudience THEN Raised(TOKEN_INVALID_ERROR, "Invalid audience")
    ELSE IF jwt.sub = None THEN Raised(AUTHENTICATION_ERROR, "Missing subject")
    ELSE Verified(jwt)

-----------------------------------------------------------------------------
(* The adapters' authentication: get_current_user and its variants.        *)

GET_CURRENT_USER == "get_current_user"
GET_CURRENT_USER_OPTIONAL == "get_current_user_optional"
GET_OSM_CONNECTION == "get_osm_connection"
REQUIRE_OSM_CONNECTION == "require_osm_connection"
VIEW == "view"
LOGIN_REQUIRED == "login_required"
OSM_REQUIRED == "osm_required"

\* How a dependency or a view ended: the object it returned, or the exception it
\* raised, or (a django view) the response.
Returned(object) == [returned |-> object, exception |-> NoObject, response |-> NoObject]
HTTPException(status_code, detail) ==
    [returned |-> NoObject,
     exception |-> [type |-> "HTTPException", status_code |-> status_code, detail |-> detail],
     response |-> NoObject]
Propagated(v) ==
    [returned |-> NoObject, exception |-> [type |-> v.raised, message |-> v.message],
     response |-> NoObject]
JsonResponse(status) ==
    [returned |-> NoObject, exception |-> NoObject, response |-> [status_code |-> status]]

\* fastapi.get_current_user, `if not token`.
fastapi_get_current_user_no_token ==
    HTTPException(401, "Not authenticated")

\* The handlers merged into one: every failure answered with the exception's text.
fastapi_get_current_user_validated_one_handler(v) ==
    IF v.raised = None THEN Returned(v.user)
    ELSE IF v.raised \in {TOKEN_EXPIRED_ERROR, TOKEN_INVALID_ERROR, AUTHENTICATION_ERROR}
    THEN HTTPException(401, v.message)
    ELSE Propagated(v)

\* fastapi.get_current_user, the try block around validate_token.
fastapi_get_current_user_validated(v) ==
    IF v.raised = None THEN Returned(v.user)
    ELSE IF v.raised = TOKEN_EXPIRED_ERROR THEN HTTPException(401, "Token has expired")
    ELSE IF v.raised \in {TOKEN_INVALID_ERROR, AUTHENTICATION_ERROR}
    THEN HTTPException(401, v.message)
    ELSE Propagated(v)

\* The except clause without TokenExpiredError.
fastapi_get_current_user_optional_validated_expired_uncaught(v) ==
    IF v.raised = None THEN Returned(v.user)
    ELSE IF v.raised \in {TOKEN_INVALID_ERROR, AUTHENTICATION_ERROR}
    THEN Returned(NoObject)
    ELSE Propagated(v)

\* fastapi.get_current_user_optional, the try block around validate_token.
fastapi_get_current_user_optional_validated(v) ==
    IF v.raised = None THEN Returned(v.user)
    ELSE IF v.raised \in {TOKEN_EXPIRED_ERROR, TOKEN_INVALID_ERROR, AUTHENTICATION_ERROR}
    THEN Returned(NoObject)
    ELSE Propagated(v)

\* django.get_current_user, the try block: the last clause is `except Exception`.
django_get_current_user_validated(v) ==
    IF v.raised = None THEN Returned(v.user)
    ELSE Returned(NoObject)

\* How the function handling the request ends when the request has no token.
WithoutToken(fw, fn) ==
    IF fw = FASTAPI /\ fn = GET_CURRENT_USER THEN fastapi_get_current_user_no_token
    ELSE Returned(NoObject)

\* How it ends when validate_token has returned or raised.
Validated(fw, fn, v) ==
    IF fw = DJANGO THEN django_get_current_user_validated(v)
    ELSE IF fn = GET_CURRENT_USER THEN fastapi_get_current_user_validated(v)
    ELSE fastapi_get_current_user_optional_validated(v)

-----------------------------------------------------------------------------
(* CookieCrypto (hotosm_auth.crypto), after the specification's Encrypt    *)
(* and Decrypt: an authenticated cipher, taken as ideal (no string other   *)
(* than the cipher's output under a key verifies under that key).          *)

\* Cookie secrets (each of at least 32 bytes) and the keys derived from them.
Secrets == {"secret-A", "secret-B"}

DeriveKey(secret) ==
    CASE secret = "secret-A" -> "key-A"
      [] secret = "secret-B" -> "key-B"

\* The number of bit positions of a cookie value that are told apart.
BlobBits == 2

\* Time, in ticks since an epoch: TicksPerSecond ticks make a second, so that instants
\* within a second are told apart.  MaxNow is the latest reading of the clock.
TicksPerSecond == 2
MaxNow == 8

\* A datetime (naive, UTC).
Datetime(ticks) == [ticks |-> ticks]

\* OSM connections: the external account and the token's expiry (None when the
\* token does not expire).
OSMConnection(osm_user_id, osm_username, expires_at) ==
    [osm_user_id |-> osm_user_id, osm_username |-> osm_username, expires_at |-> expires_at]

OSMConnections ==
    {OSMConnection("42", "alice", Datetime(5)), OSMConnection("7", "bob", NoObject)}

\* "Serialize the connection to a canonical byte form": its fields in a fixed order.
Serialize(connection) ==
    <<connection.osm_user_id, connection.osm_username, connection.expires_at>>

\* "Deserialize the plaintext back into an OSMConnection"
Deserialize(plaintext) ==
    OSMConnection(plaintext[1], plaintext[2], plaintext[3])

\* A plaintext that has the structure of a serialized OSMConnection.
WellStructured(plaintext) ==
    Len(plaintext) = 3

\* The value of the `osm_connection` cookie: absent (cookies.get gives None), the
\* empty string, a string that is not in the cipher's encoding, or the cipher's
\* output for a plaintext under a key with the bits at `flipped` inverted.
NoCookie == [form |-> "absent"]
EmptyString == [form |-> "empty"]
MalformedString == [form |-> "malformed"]
Ciphertext(key, plaintext, flipped) ==
    [form |-> "ciphertext", key |-> key, plaintext |-> plaintext, flipped |-> flipped]

\* The string with bit i inverted.
FlipBit(blob, i) ==
    [blob EXCEPT !.flipped = IF i \in @ THEN @ \ {i} ELSE @ \cup {i}]

COOKIE_DECRYPTION_ERROR == "CookieDecryptionError"

\* CookieCrypto(secret).encrypt_osm_connection(connection)
encrypt_osm_connection(secret, connection) ==
    Ciphertext(DeriveKey(secret), Serialize(connection), {})

\* What decrypt_osm_connection did: the connection returned or the error raised.
Decrypted(connection) == [raised |-> None, connection |-> connection]
DecryptionFailed == [raised |-> COOKIE_DECRYPTION_ERROR, connection |-> NoObject]

\* CookieCrypto(secret).decrypt_osm_connection(blob): malformed encoding rejected;
\* the tag verified (it fails for another key and for any changed bit); the
\* plaintext deserialized, a structural mismatch failing too.
decrypt_osm_connection(secret, blob) ==
    IF blob.form # "ciphertext" THEN DecryptionFailed
    ELSE IF blob.key # DeriveKey(secret) \/ blob.flipped # {} THEN DecryptionFailed
    ELSE IF ~WellStructured(blob.plaintext) THEN DecryptionFailed
    ELSE Decrypted(Deserialize(blob.plaintext))

-----------------------------------------------------------------------------
(* The adapters' OSM connection: get_osm_connection, require_osm_connection *)
(* and set_osm_cookie.                                                      *)

SET_OSM_COOKIE == "set_osm_cookie"

\* `not encrypted`: the cookie absent or empty.
NotEncrypted(encrypted) ==
    encrypted = NoCookie \/ encrypted = EmptyString

\* The decryption outside any try block.
fastapi_get_osm_connection_uncaught(req, secret) ==
    LET encrypted == req.cookies.osm_connection
        d == decrypt_osm_connection(secret, encrypted)
    IN IF NotEncrypted(encrypted) THEN Returned(NoObject)
       ELSE IF d.raised = None THEN Returned(d.connection)
       ELSE Propagated([raised |-> d.raised, message |-> "decryption failed"])

\* fastapi.get_osm_connection(request, crypto)
fastapi_get_osm_connection(req, secret) ==
    LET encrypted == req.cookies.osm_connection
        d == decrypt_osm_connection(secret, encrypted)
    IN IF NotEncrypted(encrypted) THEN Returned(NoObject)
       ELSE IF d.raised = None THEN Returned(d.connection)
       ELSE IF d.raised = COOKIE_DECRYPTION_ERROR THEN Returned(NoObject)
       ELSE Propagated([raised |-> d.raised, message |-> "decryption failed"])

\* django.get_osm_connection(request)
django_get_osm_connection(req, secret) ==
    LET encrypted == req.cookies.osm_connection
        d == decrypt_osm_connection(secret, encrypted)
    IN IF NotEncrypted(encrypted) THEN Returned(NoObject)
       ELSE IF d.raised = None THEN Returned(d.connection)
       ELSE IF d.raised = COOKIE_DECRYPTION_ERROR THEN Returned(NoObject)
       ELSE Propagated([raised |-> d.raised, message |-> "decryption failed"])

get_osm_connection(fw, req, secret) ==
    IF fw = FASTAPI THEN fastapi_get_osm_connection(req, secret)
    ELSE django_get_osm_connection(req, secret)

\* The dependency without its check.
require_osm_connection_unchecked(got) ==
    got

\* fastapi.require_osm_connection(osm), given how get_osm_connection ended.
require_osm_connection(got) ==
    IF got.exception # NoObject THEN got
    ELSE IF got.returned = NoObject THEN HTTPException(403, "OSM connection required")
    ELSE Returned(got.returned)

-----------------------------------------------------------------------------
(* Handling a request.                                                     *)

\* The frame of the dependency or view that handles the request: the function, the
\* decorators of a django view and those of them still to run, the token extracted, what
\* validate_token did, request.hotosm's lazily loaded user and osm, the argument of
\* set_osm_cookie, whether the view function was invoked, and how it ended; the
\* validate_token and decrypt_osm_connection calls made for the request, the reads of
\* request.hotosm.user and .osm in the view's body with the values they gave; and of
\* set_osm_cookie the config, the clock's reading and the response.set_cookie call.
NotHandling ==
    [pc |-> "idle", fn |-> None, decorators |-> <<>>, stack |-> <<>>, token |-> None,
     validation |-> NoValidation,
     user_loaded |-> FALSE, user |-> NoObject, osm_loaded |-> FALSE, osm |-> NoObject,
     osm_connection |-> NoObject, view_invoked |-> FALSE, result |-> Returned(NoObject),
     validations |-> 0, decryptions |-> 0,
     user_reads |-> 0, user_read |-> {}, osm_reads |-> 0, osm_read |-> {},
     config |-> NoObject, utcnow |-> 0, set_cookie |-> NoObject]

NoRequest == Request(NoAuthorization, None, NoCookie, FALSE)

\* The frame when the function has ended with `result`.
Ended(h, result) == [h EXCEPT !.pc = "done", !.result = result]

\* The frame when get_current_user has ended with `result`: a view's wrapper goes on
\* with request.hotosm.user loaded (_HOTOSMNamespace.user), a dependency has ended.
UserResolved(h, result) ==
    IF h.fn = VIEW
    THEN [h EXCEPT !.pc = "wrapper", !.user_loaded = TRUE, !.user = result.returned]
    ELSE Ended(h, result)

\* The stacks of decorators on a django view, outermost first.
Stacks ==
    {<<LOGIN_REQUIRED>>, <<OSM_REQUIRED>>, <<LOGIN_REQUIRED, OSM_REQUIRED>>,
     <<OSM_REQUIRED, LOGIN_REQUIRED>>}

\* The requests of the authentication specification: every header with every cookie.
\* Those of the view specification: a header or a cookie with a good or a bad token.
FewHeaders == {NoAuthorization, AuthorizationHeader("Bearer", TRUE, "jwt_valid")}
FewHankoCookies == {None, "jwt_valid", "jwt_expired"}

\* The functions of each integration module that take the user from the request.
UserFunctions(fw) ==
    IF fw = FASTAPI THEN {GET_CURRENT_USER, GET_CURRENT_USER_OPTIONAL}
    ELSE {GET_CURRENT_USER}

\* A request arrives at a route that depends on get_current_user or
\* get_current_user_optional (fastapi), or get_current_user is called on it (django).
\* The browser sends its `osm_connection` cookie along.
current_user(Headers, Cookies) ==
    /\ handling.pc \in {"idle", "done"}
    /\ \E fn \in UserFunctions(framework), authorization \in Headers, hanko \in Cookies :
         /\ request' = Request(authorization, hanko, cookie_jar, TRUE)
         /\ handling' = [NotHandling EXCEPT !.pc = "token", !.fn = fn]
    /\ UNCHANGED <<mapping_vars, singleton_vars, cookie_secret, cookie_jar, signing_key_set,
                   jwks_endpoint, getkey>>

\* `token = get_token_from_request(...)` and `if not token`.
get_token ==
    LET token == get_token_from_request(framework, request) IN
    /\ handling.pc = "token"
    /\ handling' = IF ~Truthy(token)
                   THEN UserResolved([handling EXCEPT !.token = token],
                                     WithoutToken(framework, handling.fn))
                   ELSE [handling EXCEPT !.pc = "validate", !.token = token]
    /\ UNCHANGED <<mapping_vars, singleton_vars, request, cookie_secret, cookie_jar, signing_key_set,
                   jwks_endpoint, getkey>>

\* `await validator.validate_token(token)` up to the key: the token fails before
\* (steps 1 and 2), or the validator asks the JWKS cache for the header's kid.
validate_token ==
    LET jwt == Decode(handling.token)
        v == BeforeKey(jwt)
    IN /\ handling.pc = "validate"
       /\ IF v.raised # None
          THEN /\ handling' = UserResolved([handling EXCEPT !.validation = v,
                                                             !.validations = @ + 1],
                                           Validated(framework, handling.fn, v))
               /\ UNCHANGED getkey
          ELSE /\ handling' = [handling EXCEPT !.pc = "key", !.validations = @ + 1]
               /\ getkey' = [getkey EXCEPT ![1] = GetKey(jwt.kid)]
       /\ UNCHANGED <<mapping_vars, singleton_vars, request, cookie_secret, cookie_jar, signing_key_set,
                      jwks_endpoint>>

\* validate_token from the key on (steps 3 to 7), and what the adapter's function
\* makes of its result.
validate_token_returns ==
    LET jwt == Decode(handling.token)
        v == AfterKey(jwt, getkey[1].outcome)
    IN /\ handling.pc = "key"
       /\ getkey[1].pc = "done"
       /\ handling' = UserResolved([handling EXCEPT !.validation = v],
                                   Validated(framework, handling.fn, v))
       /\ getkey' = [getkey EXCEPT ![1] = NoGetKey]
       /\ UNCHANGED <<mapping_vars, singleton_vars, request, cookie_secret, cookie_jar, signing_key_set,
                      jwks_endpoint>>

\* A request arrives at a route that depends on get_osm_connection or on
\* require_osm_connection (fastapi), or get_osm_connection is called on it (django).
osm_connection ==
    /\ handling.pc \in {"idle", "done"}
    /\ \E fn \in IF framework = FASTAPI THEN {GET_OSM_CONNECTION, REQUIRE_OSM_CONNECTION}
                 ELSE {GET_OSM_CONNECTION} :
         LET req == Request(NoAuthorization, None, cookie_jar, TRUE)
             got == get_osm_connection(framework, req, cookie_secret)
         IN /\ request' = req
            /\ handling' = Ended([NotHandling EXCEPT !.fn = fn],
                                 IF fn = REQUIRE_OSM_CONNECTION
                                 THEN require_osm_connection(got) ELSE got)
    /\ UNCHANGED <<mapping_vars, singleton_vars, cookie_secret, cookie_jar, signing_key_set,
                   jwks_endpoint, getkey>>

\* The configuration as far as the cookie goes: config.cookie_secure,
\* config.cookie_samesite, config.cookie_domain.
AuthConfig(cookie_secure, cookie_samesite, cookie_domain) ==
    [cookie_secure |-> cookie_secure, cookie_samesite |-> cookie_samesite,
     cookie_domain |-> cookie_domain]

Configs == {AuthConfig(TRUE, "lax", ".hotosm.org"), AuthConfig(FALSE, "strict", None)}

\* int(delta.total_seconds()): the seconds of a timedelta, the fraction cut off
\* (towards zero).
IntTotalSeconds(delta) ==
    IF delta >= 0 THEN delta \div TicksPerSecond ELSE -((-delta) \div TicksPerSecond)

\* A max_age of `seconds`; no max_age is None.
Seconds(seconds) == [seconds |-> seconds]

\* The seconds rounded up.
max_age_rounded_up(expires_at, utcnow) ==
    IF expires_at = NoObject THEN NoObject
    ELSE Seconds(IntTotalSeconds(expires_at.ticks - utcnow + TicksPerSecond - 1))

\* `max_age = None; if osm_connection.expires_at: delta = osm_connection.expires_at -
\* datetime.utcnow(); max_age = int(delta.total_seconds())`
max_age(expires_at, utcnow) ==
    IF expires_at = NoObject THEN NoObject
    ELSE Seconds(IntTotalSeconds(expires_at.ticks - utcnow))

\* response.set_cookie(key="osm_connection", value=encrypted, httponly=True,
\* secure=config.cookie_secure, samesite=config.cookie_samesite,
\* domain=config.cookie_domain, max_age=max_age, path="/")
set_cookie(encrypted, config, maxage) ==
    [key |-> "osm_connection", value |-> encrypted, httponly |-> TRUE,
     secure |-> config.cookie_secure, samesite |-> config.cookie_samesite,
     domain |-> config.cookie_domain, max_age |-> maxage, path |-> "/"]

\* The cookie set with the connection as it is, not encrypted.
set_osm_cookie_not_encrypted(connection) ==
    /\ handling.pc \in {"idle", "done"}
    /\ request' = Request(NoAuthorization, None, cookie_jar, TRUE)
    /\ handling' = Ended([NotHandling EXCEPT !.fn = SET_OSM_COOKIE,
                                             !.osm_connection = connection],
                         Returned(NoObject))
    /\ cookie_jar' = MalformedString
    /\ UNCHANGED <<mapping_vars, singleton_vars, cookie_secret, signing_key_set, jwks_endpoint, getkey>>

\* set_osm_cookie(response, osm_connection, ...): the response sets the cookie
\* `osm_connection` to crypto.encrypt_osm_connection(osm_connection), with max_age
\* from the connection's expiry and the other attributes from the config; the
\* client keeps the value for its next requests.
set_osm_cookie(connection) ==
    /\ handling.pc \in {"idle", "done"}
    /\ request' = Request(NoAuthorization, None, cookie_jar, TRUE)
    /\ \E config \in Configs, utcnow \in 0..MaxNow :
         LET encrypted == encrypt_osm_connection(cookie_secret, connection) IN
         /\ handling' = Ended([NotHandling EXCEPT
                                   !.fn = SET_OSM_COOKIE,
                                   !.osm_connection = connection,
                                   !.config = config,
                                   !.utcnow = utcnow,
                                   !.set_cookie = set_cookie(encrypted, config,
                                                             max_age(connection.expires_at, utcnow))],
                               Returned(NoObject))
         /\ cookie_jar' = encrypted
    /\ UNCHANGED <<mapping_vars, singleton_vars, cookie_secret, signing_key_set, jwks_endpoint, getkey>>

-----------------------------------------------------------------------------
(* django: views behind @login_required and @osm_required.                 *)

\* The wrapper that only looks for the attribute.
login_required_attribute_only(h, req) ==
    IF ~req.middleware THEN Ended(h, JsonResponse(401))
    ELSE IF ~h.user_loaded THEN [h EXCEPT !.pc = "token"]
    ELSE [h EXCEPT !.stack = Tail(@)]

\* login_required's wrapper: `if not hasattr(request, "hanko_user") or not
\* request.hanko_user` answers 401, else the wrapped function is called.  Evaluating
\* request.hanko_user loads request.hotosm.user (get_current_user run to its end)
\* when it is not loaded yet.
login_required(h, req) ==
    IF ~req.middleware THEN Ended(h, JsonResponse(401))
    ELSE IF ~h.user_loaded THEN [h EXCEPT !.pc = "token"]
    ELSE IF h.user = NoObject THEN Ended(h, JsonResponse(401))
    ELSE [h EXCEPT !.stack = Tail(@)]

\* request.hotosm.osm: get_osm_connection(request) on first access, kept afterwards.
HotosmOsm(h, req, secret) ==
    IF h.osm_loaded THEN Returned(h.osm) ELSE django_get_osm_connection(req, secret)

\* Every access of the property decrypting the cookie anew.
Decrypts_not_memoized(h, req) ==
    ~NotEncrypted(req.cookies.osm_connection)

\* Whether an access of request.hotosm.osm calls decrypt_osm_connection: when the
\* property is not loaded yet and the request has a non-empty cookie.
Decrypts(h, req) ==
    ~h.osm_loaded /\ ~NotEncrypted(req.cookies.osm_connection)

\* The frame when request.hotosm.osm has been accessed.
LoadOsm(h, req, secret) ==
    [h EXCEPT !.osm_loaded = TRUE,
              !.osm = HotosmOsm(h, req, secret).returned,
              !.decryptions = IF Decrypts(h, req) THEN @ + 1 ELSE @]

\* osm_required's wrapper: `if not hasattr(request, "osm_connection") or not
\* request.osm_connection` answers 403, else the wrapped function is called.
osm_required(h, req, secret) ==
    LET got == HotosmOsm(h, req, secret)
        loaded == LoadOsm(h, req, secret)
    IN IF ~req.middleware THEN Ended(h, JsonResponse(403))
       ELSE IF got.exception # NoObject THEN Ended(h, got)
       ELSE IF got.returned = NoObject THEN Ended(loaded, JsonResponse(403))
       ELSE [loaded EXCEPT !.stack = Tail(@)]

\* A request arrives at a decorated view; HankoAuthMiddleware, when installed, has
\* set request.hotosm, request.hanko_user and request.osm_connection.
django_view(Headers, Cookies) ==
    /\ framework = DJANGO
    /\ handling.pc \in {"idle", "done"}
    /\ \E stack \in Stacks, authorization \in Headers, hanko \in Cookies,
          middleware \in BOOLEAN :
         /\ request' = Request(authorization, hanko, cookie_jar, middleware)
         /\ handling' = [NotHandling EXCEPT !.pc = "wrapper", !.fn = VIEW,
                                           !.decorators = stack, !.stack = stack]
    /\ UNCHANGED <<mapping_vars, singleton_vars, cookie_secret, cookie_jar, signing_key_set,
                   jwks_endpoint, getkey>>

\* The outermost decorator still to run.
wrapper ==
    /\ handling.pc = "wrapper"
    /\ handling.stack # <<>>
    /\ handling' = IF Head(handling.stack) = LOGIN_REQUIRED
                   THEN login_required(handling, request)
                   ELSE osm_required(handling, request, cookie_secret)
    /\ UNCHANGED <<mapping_vars, singleton_vars, request, cookie_secret, cookie_jar, signing_key_set,
                   jwks_endpoint, getkey>>

\* Every wrapper has called on: view_func(request) runs and answers.
view_func ==
    /\ handling.pc = "wrapper"
    /\ handling.stack = <<>>
    /\ handling' = Ended([handling EXCEPT !.view_invoked = TRUE], JsonResponse(200))
    /\ UNCHANGED <<mapping_vars, singleton_vars, request, cookie_secret, cookie_jar, signing_key_set,
                   jwks_endpoint, getkey>>

\* The reads of one property that a view's body makes, at most.
MaxReads == 2

\* The view's body reads request.hotosm.user (or its alias request.hanko_user): the
\* user is loaded on the first access (get_current_user run to its end) and the
\* kept value is what every read gives.
hotosm_user ==
    /\ handling.fn = VIEW
    /\ handling.pc = "wrapper"
    /\ handling.stack = <<>>
    /\ request.middleware
    /\ handling.user_reads < MaxReads
    /\ handling' = IF ~handling.user_loaded
                   THEN [handling EXCEPT !.pc = "token", !.view_invoked = TRUE]
                   ELSE [handling EXCEPT !.view_invoked = TRUE,
                                         !.user_reads = @ + 1,
                                         !.user_read = @ \cup {handling.user}]
    /\ UNCHANGED <<mapping_vars, singleton_vars, request, cookie_secret, cookie_jar,
                   signing_key_set, jwks_endpoint, getkey>>

\* The view's body reads request.hotosm.osm (or its alias request.osm_connection).
hotosm_osm ==
    LET loaded == LoadOsm(handling, request, cookie_secret) IN
    /\ handling.fn = VIEW
    /\ handling.pc = "wrapper"
    /\ handling.stack = <<>>
    /\ request.middleware
    /\ handling.osm_reads < MaxReads
    /\ handling' = [loaded EXCEPT !.view_invoked = TRUE,
                                  !.osm_reads = @ + 1,
                                  !.osm_read = @ \cup {loaded.osm}]
    /\ UNCHANGED <<mapping_vars, singleton_vars, request, cookie_secret, cookie_jar,
                   signing_key_set, jwks_endpoint, getkey>>

-----------------------------------------------------------------------------
(* The browser's cookie and the deployment's secret between requests.      *)

\* Cookie values that this deployment did not write: an empty one, one that is not
\* the cipher's encoding, and the cipher's output for another payload format.
OtherCookies ==
    {EmptyString, MalformedString}
    \cup {Ciphertext(DeriveKey(secret), <<"alice">>, {}) : secret \in Secrets}

\* One bit of the stored cookie value changes.
flip_bit ==
    /\ handling.pc \in {"idle", "done"}
    /\ cookie_jar.form = "ciphertext"
    /\ \E i \in 1..BlobBits : cookie_jar' = FlipBit(cookie_jar, i)
    /\ request' = NoRequest
    /\ handling' = NotHandling
    /\ UNCHANGED <<mapping_vars, singleton_vars, cookie_secret, signing_key_set, jwks_endpoint, getkey>>

\* The browser comes to hold another value for the cookie.
other_cookie ==
    /\ handling.pc \in {"idle", "done"}
    /\ \E value \in OtherCookies : cookie_jar' = value
    /\ request' = NoRequest
    /\ handling' = NotHandling
    /\ UNCHANGED <<mapping_vars, singleton_vars, cookie_secret, signing_key_set, jwks_endpoint, getkey>>

\* clear_osm_cookie(response, ...): the response deletes the cookie.
clear_osm_cookie ==
    /\ handling.pc \in {"idle", "done"}
    /\ cookie_jar # NoCookie
    /\ cookie_jar' = NoCookie
    /\ request' = NoRequest
    /\ handling' = NotHandling
    /\ UNCHANGED <<mapping_vars, singleton_vars, cookie_secret, signing_key_set, jwks_endpoint, getkey>>

\* The deployment is restarted with another COOKIE_SECRET: init_auth (the django
\* singletons) build a new CookieCrypto.
secret_changes ==
    /\ handling.pc \in {"idle", "done"}
    /\ \E secret \in Secrets \ {cookie_secret} : cookie_secret' = secret
    /\ request' = NoRequest
    /\ handling' = NotHandling
    /\ UNCHANGED <<mapping_vars, singleton_vars, cookie_jar, signing_key_set, jwks_endpoint, getkey>>

-----------------------------------------------------------------------------
(* django: the lazily created singletons, get_jwt_validator and            *)
(* get_cookie_crypto, called from the threads that handle requests.        *)

GET_JWT_VALIDATOR == "get_jwt_validator"
GET_COOKIE_CRYPTO == "get_cookie_crypto"
SingletonAccessors == {GET_JWT_VALIDATOR, GET_COOKIE_CRYPTO}

\* `_jwt_validator: Optional[JWTValidator] = None`: no instance.  Instances are told
\* apart by the order of their construction: 1, 2, ...
NoInstance == 0

\* The module global behind each accessor, and the instances constructed so far.
NoSingletons ==
    [fn \in SingletonAccessors |-> [global |-> NoInstance, constructed |-> 0]]

\* The frame of an accessor call: whether it found the global None, and the
\* instance it returned.
NoAccess == [pc |-> "idle", fn |-> None, got |-> NoInstance]

\* A thread calls get_jwt_validator() or get_cookie_crypto().
django_get_singleton(c) ==
    /\ framework = DJANGO
    /\ accessor[c].pc = "idle"
    /\ \E fn \in SingletonAccessors :
         accessor' = [accessor EXCEPT ![c] = [NoAccess EXCEPT !.pc = "is_none", !.fn = fn]]
    /\ UNCHANGED <<mapping_vars, request, handling, cookie_secret, cookie_jar,
                   signing_key_set, jwks_endpoint, getkey, singletons>>

\* `if _jwt_validator is None:`
django_is_none(c) ==
    LET f == accessor[c] IN
    /\ f.pc = "is_none"
    /\ accessor' = [accessor EXCEPT ![c] =
                      [f EXCEPT !.pc = IF singletons[f.fn].global = NoInstance
                                       THEN "construct" ELSE "return"]]
    /\ UNCHANGED <<mapping_vars, request, handling, cookie_secret, cookie_jar,
                   signing_key_set, jwks_endpoint, getkey, singletons>>

\* `config = get_auth_config()` and `_jwt_validator = JWTValidator(config)`: a new
\* instance is constructed and the global set to it.
django_construct(c) ==
    LET f == accessor[c]
        instance == singletons[f.fn].constructed + 1
    IN /\ f.pc = "construct"
       /\ singletons' = [singletons EXCEPT ![f.fn] =
                           [global |-> instance, constructed |-> instance]]
       /\ accessor' = [accessor EXCEPT ![c] = [f EXCEPT !.pc = "return"]]
       /\ UNCHANGED <<mapping_vars, request, handling, cookie_secret, cookie_jar,
                      signing_key_set, jwks_endpoint, getkey>>

\* `return _jwt_validator`: the global is read again.
django_return_singleton(c) ==
    LET f == accessor[c] IN
    /\ f.pc = "return"
    /\ accessor' = [accessor EXCEPT ![c] =
                      [f EXCEPT !.pc = "done", !.got = singletons[f.fn].global]]
    /\ UNCHANGED <<mapping_vars, request, handling, cookie_secret, cookie_jar,
                   signing_key_set, jwks_endpoint, getkey, singletons>>

\* The caller goes on with the instance (validate_token, decrypt_osm_connection).
django_singleton_used(c) ==
    /\ accessor[c].pc = "done"
    /\ accessor' = [accessor EXCEPT ![c] = NoAccess]
    /\ UNCHANGED <<mapping_vars, request, handling, cookie_secret, cookie_jar,
                   signing_key_set, jwks_endpoint, getkey, singletons>>

-----------------------------------------------------------------------------
(* Specifications.                                                         *)

\* The application has started (init_auth called / settings loaded): no mapping, no
\* request, an empty key cache, and a browser without the `osm_connection` cookie.
Init ==
    /\ framework \in {FASTAPI, DJANGO}
    /\ table = {}
    /\ calls = [c \in Callers |-> Idle]
    /\ request = NoRequest
    /\ handling = NotHandling
    /\ cookie_secret = "secret-A"
    /\ cookie_jar = NoCookie
    /\ signing_key_set = EmptyKeySet
    /\ jwks_endpoint = {"k1"}
    /\ getkey = [c \in Callers |-> NoGetKey]
    /\ app_users = {}
    /\ singletons = NoSingletons
    /\ accessor = [c \in Callers |-> NoAccess]

\* Concurrent requests of one user (to either application name): callers of either
\* module; fastapi callers pass at most a generator.
Next ==
    \E c \in Callers :
        \/ fastapi_get_mapped_user_id(c, SameUser, GeneratorOnly)
        \/ fastapi_select(c)
        \/ fastapi_insert(c)
        \/ django_get_mapped_user_id(c, SameUser)
        \/ django_select(c)
        \/ django_insert(c)
        \/ create_user_mapping(c, SameUser)
        \/ Return(c)

Spec == Init /\ [][Next]_vars

\* One caller at a time, of either module, for any user and passing any combination
\* of callbacks.
NextResolve ==
    \E c \in {1} :
        \/ fastapi_get_mapped_user_id(c, HankoUserIds, AllCallbacks)
        \/ fastapi_select(c)
        \/ fastapi_email_lookup(c)
        \/ fastapi_user_creator(c)
        \/ fastapi_insert(c)
        \/ django_get_mapped_user_id(c, HankoUserIds)
        \/ django_select(c)
        \/ django_insert(c)
        \/ create_user_mapping(c, HankoUserIds)
        \/ Return(c)

SpecResolve == Init /\ [][NextResolve]_vars

\* One request at a time through get_current_user and its variants, with every
\* Authorization header and `hanko` cookie, while the cached keys expire and the
\* provider rotates its keys.
NextAuth ==
    \/ current_user(AuthorizationHeaders, HankoCookies)
    \/ get_token
    \/ validate_token
    \/ validate_token_returns
    \/ \E c \in {1} : jwks_fetch_returns(c)
    \/ ttl_expires
    \/ provider_rotates_keys

SpecAuth == Init /\ [][NextAuth]_vars

\* One request at a time to the OSM-connection dependencies, to set_osm_cookie and
\* to decorated django views, while the browser's cookie and the secret change.
NextView ==
    \/ django_view(FewHeaders, FewHankoCookies)
    \/ wrapper
    \/ hotosm_user
    \/ hotosm_osm
    \/ view_func
    \/ get_token
    \/ validate_token
    \/ validate_token_returns
    \/ \E c \in {1} : jwks_fetch_returns(c)
    \/ osm_connection
    \/ \E connection \in OSMConnections : set_osm_cookie(connection)
    \/ flip_bit
    \/ other_cookie
    \/ clear_osm_cookie
    \/ secret_changes

SpecView == Init /\ [][NextView]_vars

\* Concurrent validate_token calls on the one validator, each asking its JWKS cache
\* for a key.
NextJwks ==
    \/ \E c \in Callers :
          \/ get_key(c)
          \/ jwks_fetch_returns(c)
          \/ get_key_returns(c)
    \/ ttl_expires
    \/ provider_rotates_keys

SpecJwks == Init /\ [][NextJwks]_vars

\* Concurrent first-time resolutions of one user through the fastapi helper, the
\* callers passing a user_creator_fn.
CreatorSupplied ==
    {k \in AllCallbacks : k.user_creator_fn /\ ~k.email_lookup_fn}

NextCreator ==
    \E c \in Callers :
        \/ fastapi_get_mapped_user_id(c, SameUser, CreatorSupplied)
        \/ fastapi_select(c)
        \/ fastapi_user_creator(c)
        \/ fastapi_insert(c)
        \/ Return(c)

SpecCreator == Init /\ [][NextCreator]_vars

\* Threads of a django process calling the accessors of the singletons.
NextSingleton ==
    \E c \in Callers :
        \/ django_get_singleton(c)
        \/ django_is_none(c)
        \/ django_construct(c)
        \/ django_return_singleton(c)
        \/ django_singleton_used(c)

SpecSingleton == Init /\ [][NextSingleton]_vars


-----------------------------------------------------------------------------
(* Properties.                                                             *)

\* The rows of the pair (hanko_user_id, app_name).
RowsOf(t, hanko_user_id, app_name) ==
    {r \in t : r.hanko_user_id = hanko_user_id /\ r.app_name = app_name}

\* Caller c has finished a get_mapped_user_id call that found no row and went on to
\* create the mapping (a first-time resolution with auto-create).
FirstTimeResolved(c) ==
    /\ calls[c].pc = "done"
    /\ calls[c].fn = GET_MAPPED_USER_ID
    /\ calls[c].outcome \in {MAPPING_CREATED, INTEGRITY_ERROR}

\* C1: callers that ran a first-time resolution with auto-create for the same
\* (hanko_user_id, app_name) leave exactly one row for the pair and all return the
\* same application user ID, that row's.
C1_ConcurrentFirstResolveAgree ==
    \A c1, c2 \in Callers :
        ( /\ c1 # c2
          /\ FirstTimeResolved(c1) /\ FirstTimeResolved(c2)
          /\ calls[c1].hanko_user_id = calls[c2].hanko_user_id
          /\ calls[c1].app_name = calls[c2].app_name )
        => /\ Cardinality(RowsOf(table, calls[c1].hanko_user_id, calls[c1].app_name)) = 1
           /\ calls[c1].value = calls[c2].value
           /\ \E r \in table : r.app_user_id = calls[c1].value

\* C2: when the INSERT of get_mapped_user_id meets a row that another resolution
\* inserted for the same (hanko_user_id, app_name), the call does not end with the
\* IntegrityError but returns that row's app_user_id.
C2_InsertRaceRecovered ==
    [][ \A c \in Callers :
          ( /\ calls[c].fn = GET_MAPPED_USER_ID
            /\ calls[c].pc = "insert"
            /\ calls'[c].pc = "done"
            /\ \E d \in Callers \ {c} :
                  /\ FirstTimeResolved(d)
                  /\ calls[d].outcome = MAPPING_CREATED
                  /\ Row(calls[c].hanko_user_id, calls[d].value, calls[c].app_name) \in table )
          => /\ calls'[c].outcome # INTEGRITY_ERROR
             /\ calls'[c].value \in SelectAppUserId(table, calls[c].hanko_user_id, calls[c].app_name)
      ]_vars

\* C3: in every reachable state the table holds at most one row per
\* (hanko_user_id, app_name).
C3_OneRowPerPair ==
    \A r1, r2 \in table :
        (r1.hanko_user_id = r2.hanko_user_id /\ r1.app_name = r2.app_name) => r1 = r2

\* C3's case: an INSERT of a racing get_mapped_user_id was rejected for a pair that
\* has its row, with an application user ID other than the one the row holds.
C3_Witness ==
    \E c \in Callers :
        /\ FirstTimeResolved(c)
        /\ calls[c].outcome = INTEGRITY_ERROR
        /\ ID_GENERATOR \in calls[c].invoked
        /\ \E r \in RowsOf(table, calls[c].hanko_user_id, calls[c].app_name) :
              r.app_user_id \notin GeneratorReturns

\* C4: an INSERT for a (hanko_user_id, app_name) fails only because of a row of that
\* same pair, never because of the user's mapping in another application.
C4_PerApplicationScope ==
    \A c \in Callers :
        (calls[c].pc = "done" /\ calls[c].outcome = INTEGRITY_ERROR)
        => RowsOf(table, calls[c].hanko_user_id, calls[c].app_name) # {}

\* C5: once a row (s, a, u) exists, a get_mapped_user_id call for (s, a), whatever
\* arguments it was given, returns u when it runs its SELECT, invokes none of the
\* callbacks and leaves the table as it is.
C5_ResolveIdempotent ==
    [][ \A c \in Callers :
          LET f == calls[c]
              g == calls'[c]
              rows == SelectAppUserId(table, f.hanko_user_id, f.app_name)
          IN (f.fn = GET_MAPPED_USER_ID /\ f.pc = "select" /\ g # f /\ rows # {})
             => /\ g.pc = "done"
                /\ g.outcome = MAPPING_FOUND
                /\ g.value \in rows
                /\ g.invoked = {}
                /\ table' = table
      ]_vars

\* C5's case: a call has returned the ID that an earlier resolution linked by email.
C5_Witness ==
    \E c \in Callers :
        /\ calls[c].pc = "done"
        /\ calls[c].outcome = MAPPING_FOUND
        /\ calls[c].value \in EmailLookupReturns
        /\ Row(calls[c].hanko_user_id, calls[c].value, calls[c].app_name) \in table

C7_UserIdPriority ==
    [][ \A c \in Callers :
          LET f == calls[c]
              g == calls'[c]
              found == f.email_lookup_fn /\ Truthy(f.existing_user_id)
              made == ~found /\ f.user_creator_fn /\ Truthy(f.created_user_id)
          IN (framework = FASTAPI /\ f.fn = GET_MAPPED_USER_ID
                /\ f.pc = "insert" /\ g.pc = "done")
             => /\ (EMAIL_LOOKUP \in g.invoked) = f.email_lookup_fn
                /\ (USER_CREATOR \in g.invoked) = (~found /\ f.user_creator_fn)
                /\ (ID_GENERATOR \in g.invoked) = (~found /\ ~made /\ f.user_id_generator)
                /\ (g.outcome = MAPPING_CREATED) =>
                     (IF found THEN g.value = f.existing_user_id
                      ELSE IF made THEN g.value = f.created_user_id
                      ELSE IF f.user_id_generator THEN g.value \in GeneratorReturns
                      ELSE g.value = f.hanko_user_id)
      ]_vars

\* C7's case: the lookup found no user, the creator made one, and its ID was mapped.
C7_Witness ==
    \E c \in Callers :
        /\ calls[c].pc = "done"
        /\ calls[c].outcome = MAPPING_CREATED
        /\ calls[c].invoked = {EMAIL_LOOKUP, USER_CREATOR}
        /\ calls[c].value \in UserCreatorReturns

\* C8: when a first-time get_mapped_user_id with auto-create returns u for (s, a), the
\* table after the call is the table before it plus the one new row (s, a, u).
C8_FirstResolveAddsOneRow ==
    [][ \A c \in Callers :
          LET f == calls[c]
              g == calls'[c]
              row == Row(f.hanko_user_id, g.value, f.app_name)
          IN (f.fn = GET_MAPPED_USER_ID /\ f.pc # "done"
                /\ g.pc = "done" /\ g.outcome = MAPPING_CREATED)
             => /\ row \notin table
                /\ table' = table \cup {row}
      ]_vars

\* C8's case: the generator's "g1" for "abc" in "fair": row ("abc", "fair", "g1")
\* inserted and "g1" returned.
C8_Witness ==
    \E c \in Callers :
        /\ calls[c].pc = "done"
        /\ calls[c].fn = GET_MAPPED_USER_ID
        /\ calls[c].outcome = MAPPING_CREATED
        /\ calls[c].invoked = {ID_GENERATOR}
        /\ calls[c].hanko_user_id = "abc" /\ calls[c].app_name = "fair"
        /\ calls[c].value = "g1"
        /\ Row("abc", "g1", "fair") \in table

\* C9: no step of the django get_mapped_user_id changes the table.
C9_DjangoLookupOnly ==
    [][ \A c \in Callers :
          (framework = DJANGO /\ calls[c].fn = GET_MAPPED_USER_ID /\ calls'[c] # calls[c])
          => table' = table
      ]_vars

\* C10: a row, once in the table, is in the table in every later state, with the same
\* app_user_id.
C10_RowsNeverDeletedOrModified ==
    [][ \A r \in table : r \in table' ]_vars

\* C10's case: a create_user_mapping failed on a pair whose row is still the one an
\* earlier call inserted.
C10_Witness ==
    \E c \in Callers :
        /\ calls[c].pc = "done"
        /\ calls[c].fn = CREATE_USER_MAPPING
        /\ calls[c].outcome = INTEGRITY_ERROR
        /\ \E r \in RowsOf(table, calls[c].hanko_user_id, calls[c].app_name) :
              r.app_user_id \notin ManualAppUserIds

\* C11: a create_user_mapping call for a (hanko_user_id, app_name) that already has a
\* row ends with IntegrityError, does not emit MAPPING_CREATED, and leaves the table
\* (that row and every other) as it was.
C11_DuplicateCreateRejected ==
    [][ \A c \in Callers :
          LET g == calls'[c] IN
          (calls[c].pc = "idle" /\ g.pc = "done" /\ g.fn = CREATE_USER_MAPPING
             /\ RowsOf(table, g.hanko_user_id, g.app_name) # {})
          => /\ g.outcome = INTEGRITY_ERROR
             /\ g.outcome # MAPPING_CREATED
             /\ table' = table
      ]_vars

\* C11's case: a second create_user_mapping for a pair that a first one had mapped
\* was rejected, and the row is the first one's.
C11_Witness ==
    \E c \in Callers :
        /\ calls[c].pc = "done"
        /\ calls[c].fn = CREATE_USER_MAPPING
        /\ calls[c].outcome = INTEGRITY_ERROR
        /\ \E r \in RowsOf(table, calls[c].hanko_user_id, calls[c].app_name) :
              r.app_user_id \in ManualAppUserIds

\* The request's Authorization header is a Bearer header (the scheme in any case).
BearerHeader(req) ==
    Lower(req.authorization.scheme) = "bearer"

\* The function handling the request has extracted the token.
TokenExtracted ==
    /\ handling.fn \in {GET_CURRENT_USER, GET_CURRENT_USER_OPTIONAL}
    /\ handling.pc \in {"validate", "key", "done"}

\* C12: in both adapters, the token extracted from a request with a header
\* `Authorization: Bearer <token>` is the header's token, whatever the `hanko` cookie;
\* from a request without a Bearer header it is the cookie's token, None when there
\* is no cookie either.
C12_HeaderTokenPriority ==
    TokenExtracted =>
        LET header == request.authorization IN
        /\ (BearerHeader(request) /\ header.space /\ header.param # "")
              => handling.token = header.param
        /\ ~BearerHeader(request) => handling.token = request.cookies.hanko

\* validate_token succeeded on the token extracted from the request.
ValidateTokenSucceeded ==
    /\ Truthy(handling.token)
    /\ handling.token = get_token_from_request(framework, request)
    /\ handling.validation.raised = None
    /\ handling.validation.user = HankoUser(Decode(handling.token))

\* C13: get_current_user, get_current_user_optional and the django get_current_user
\* return a user only when validate_token succeeded on the extracted token, and then
\* the user it returned; in every other case the fastapi get_current_user raises
\* HTTPException 401 and the other two return None, raising nothing.
C13_UnauthenticatedOnFailure ==
    (handling.pc = "done" /\ handling.fn \in {GET_CURRENT_USER, GET_CURRENT_USER_OPTIONAL})
    => LET result == handling.result IN
       IF ValidateTokenSucceeded
       THEN result = Returned(handling.validation.user)
       ELSE /\ result.returned = NoObject
            /\ IF framework = FASTAPI /\ handling.fn = GET_CURRENT_USER
               THEN /\ result.exception # NoObject
                    /\ result.exception.type = "HTTPException"
                    /\ result.exception.status_code = 401
               ELSE result.exception = NoObject

\* C13's case: an expired token came to get_current_user_optional, which returned
\* None.
C13_Witness ==
    /\ handling.pc = "done"
    /\ handling.fn = GET_CURRENT_USER_OPTIONAL
    /\ handling.validation.raised = TOKEN_EXPIRED_ERROR
    /\ handling.result = Returned(NoObject)

\* C14: when the key is resolved and signature and audience are valid, a token with
\* exp in the past makes validate_token raise TokenExpiredError; and the fastapi
\* get_current_user raises 401 with detail "Token has expired" exactly when
\* validate_token raised TokenExpiredError.
C14_ExpiredIsDistinct ==
    [][ LET jwt == Decode(handling.token)
            h == handling'
        IN /\ ( /\ handling.pc = "key" /\ h.pc # "key"
                /\ getkey[1].outcome = KEY
                /\ jwt.signed_by = jwt.kid /\ jwt.aud = JwtAudience /\ jwt.exp < 0 )
              => h.validation.raised = TOKEN_EXPIRED_ERROR
           /\ ( /\ framework = FASTAPI /\ h.fn = GET_CURRENT_USER
                /\ handling.pc # "done" /\ h.pc = "done" )
              => ( ( /\ h.result.exception # NoObject
                     /\ h.result.exception.type = "HTTPException"
                     /\ h.result.exception.status_code = 401
                     /\ h.result.exception.detail = "Token has expired" )
                   <=> h.validation.raised = TOKEN_EXPIRED_ERROR )
      ]_vars

\* C14's case: the token with exp 10 seconds ago came to the fastapi get_current_user,
\* which raised 401 "Token has expired".
C14_Witness ==
    /\ framework = FASTAPI
    /\ handling.pc = "done"
    /\ handling.fn = GET_CURRENT_USER
    /\ handling.token = "jwt_expired"
    /\ handling.result = HTTPException(401, "Token has expired")

\* The connection that the request's `osm_connection` cookie holds under the secret:
\* None when the cookie is absent or empty or its decryption fails.
CookieConnection(req, secret) ==
    LET encrypted == req.cookies.osm_connection
        d == decrypt_osm_connection(secret, encrypted)
    IN IF encrypted.form \in {"absent", "empty"} \/ d.raised = COOKIE_DECRYPTION_ERROR
       THEN NoObject
       ELSE d.connection

\* The decorator is on the view that handles the request.
Decorated(h, decorator) ==
    h.fn = VIEW /\ \E i \in DOMAIN h.decorators : h.decorators[i] = decorator

\* The status of the response a django view ended with, 0 when it has none.
ResponseStatus(h) ==
    IF h.result.response = NoObject THEN 0 ELSE h.result.response.status_code

\* C15: get_osm_connection returns None and raises nothing when the `osm_connection`
\* cookie is absent, empty or fails decryption, and the decrypted connection otherwise;
\* require_osm_connection raises HTTP 403 exactly when that connection is None and
\* returns it otherwise; a view under @osm_required alone answers 403 exactly when
\* the request has no connection (none from the cookie, or no request.osm_connection
\* at all) and is otherwise invoked with request.osm_connection the decrypted one.
C15_MissingLinkageIsAbsent ==
    LET h == handling
        connection == CookieConnection(request, cookie_secret)
    IN /\ (h.pc = "done" /\ h.fn = GET_OSM_CONNECTION)
             => h.result = Returned(connection)
       /\ (h.pc = "done" /\ h.fn = REQUIRE_OSM_CONNECTION)
             => IF connection = NoObject
                THEN h.result = HTTPException(403, "OSM connection required")
                ELSE h.result = Returned(connection)
       /\ (h.pc = "done" /\ h.fn = VIEW /\ h.decorators = <<OSM_REQUIRED>>)
             => IF ~request.middleware \/ connection = NoObject
                THEN ResponseStatus(h) = 403 /\ ~h.view_invoked
                ELSE h.view_invoked /\ h.osm = connection
       /\ (h.pc = "done" /\ Decorated(h, OSM_REQUIRED) /\ ResponseStatus(h) = 403)
             => ~request.middleware \/ connection = NoObject

\* C15's case: a request whose cookie is a ciphertext that fails decryption came to
\* require_osm_connection, which raised 403.
C15_Witness ==
    /\ handling.pc = "done"
    /\ handling.fn = REQUIRE_OSM_CONNECTION
    /\ request.cookies.osm_connection.form = "ciphertext"
    /\ decrypt_osm_connection(cookie_secret, request.cookies.osm_connection).raised
          = COOKIE_DECRYPTION_ERROR
    /\ handling.result = HTTPException(403, "OSM connection required")

ForeignOrTampered(blob, secret) ==
    /\ blob.form = "ciphertext"
    /\ blob.key # DeriveKey(secret) \/ blob.flipped # {}

\* C17: a cookie value issued under another secret, and an issued value with one bit
\* changed (or more), fails decryption with CookieDecryptionError and yields no
\* connection; get_osm_connection then returns None without raising,
\* require_osm_connection raises 403 and a view under @osm_required is not invoked.
C17_DecryptionFailsClosed ==
    LET h == handling
        blob == request.cookies.osm_connection
    IN ForeignOrTampered(blob, cookie_secret)
       => /\ decrypt_osm_connection(cookie_secret, blob) = DecryptionFailed
          /\ (h.pc = "done" /\ h.fn = GET_OSM_CONNECTION)
                => h.result = Returned(NoObject)
          /\ (h.pc = "done" /\ h.fn = REQUIRE_OSM_CONNECTION)
                => h.result = HTTPException(403, "OSM connection required")
          /\ h.fn = VIEW => h.osm = NoObject
          /\ Decorated(h, OSM_REQUIRED) => ~h.view_invoked

\* C17's case: the cookie that set_osm_cookie wrote under the secret in force came
\* back with one bit changed, and get_osm_connection returned None.
C17_Witness ==
    LET blob == request.cookies.osm_connection IN
    /\ handling.pc = "done"
    /\ handling.fn = GET_OSM_CONNECTION
    /\ blob.form = "ciphertext"
    /\ blob.key = DeriveKey(cookie_secret)
    /\ Cardinality(blob.flipped) = 1
    /\ \E x \in OSMConnections : blob.plaintext = Serialize(x)
    /\ handling.result = Returned(NoObject)

\* C18: a GetKey(kid) call issues no fetch and returns the key when the cached set
\* is present, unexpired and contains kid; otherwise it issues one fetch, and when
\* the fetch returns the cached set is the fetched document and nothing else, the
\* call ends with the key if the document has kid and with UnknownKeyError if not;
\* when the fetch fails the cache stays and the call ends with
\* KeySourceUnavailableError.  No call issues a second fetch.
C18_GetKeyFetchDiscipline ==
    [][ LET f == getkey[1]
            g == getkey'[1]
            hit == /\ signing_key_set.present
                   /\ ~signing_key_set.expired
                   /\ g.kid \in signing_key_set.keys
        IN /\ g.fetches <= 1
           /\ (f.pc = "idle" /\ g.pc # "idle")
                 => IF hit
                    THEN /\ g.pc = "done" /\ g.outcome = KEY /\ g.fetches = 0
                         /\ signing_key_set' = signing_key_set
                    ELSE /\ g.pc = "fetch" /\ g.fetches = 1
                         /\ signing_key_set' = signing_key_set
           /\ (f.pc = "fetch" /\ g.pc # "fetch")
                 => /\ g.pc = "done" /\ g.fetches = 1 /\ g.kid = f.kid
                    /\ \/ /\ signing_key_set' = FreshKeySet(jwks_endpoint)
                          /\ g.outcome = IF f.kid \in jwks_endpoint
                                         THEN KEY ELSE UNKNOWN_KEY_ERROR
                       \/ /\ signing_key_set' = signing_key_set
                          /\ g.outcome = KEY_SOURCE_UNAVAILABLE_ERROR
           /\ (f.pc = "done" /\ g # f) => g = NoGetKey
      ]_vars

\* C18's case: the call fetched once, the fetched set replaced a cached set that had
\* other keys, and the key asked for was still absent.
C18_Witness ==
    /\ getkey[1].pc = "done"
    /\ getkey[1].fetches = 1
    /\ getkey[1].outcome = UNKNOWN_KEY_ERROR
    /\ signing_key_set = FreshKeySet(jwks_endpoint)
    /\ getkey[1].kid \notin signing_key_set.keys

\* The callers whose fetch of the JWKS document is in flight, and those awaiting it.
Fetching == {c \in Callers : getkey[c].pc = "fetch"}
Awaiting == {c \in Callers : getkey[c].pc = "await"}

\* C19: at most one JWKS fetch is in flight at any time; a call that misses the
\* cache while a fetch is in flight issues none of its own and awaits that fetch;
\* and when the fetch returns, the awaiting calls end with its result.
C19_RefreshCoalesces ==
    [][ /\ Cardinality(Fetching') <= 1
        /\ \A c \in Awaiting' : getkey'[c].fetches = 0 /\ Fetching' # {}
        /\ \A c \in Callers : getkey'[c].fetches <= 1
        /\ \A c \in Awaiting :
              getkey'[c].pc # "await"
              => /\ Fetching # {} /\ Fetching' = {}
                 /\ getkey'[c].pc = "done" /\ getkey'[c].fetches = 0
                 /\ \/ /\ signing_key_set' = FreshKeySet(jwks_endpoint)
                       /\ getkey'[c].outcome = IF getkey[c].kid \in jwks_endpoint
                                               THEN KEY ELSE UNKNOWN_KEY_ERROR
                    \/ /\ signing_key_set' = signing_key_set
                       /\ getkey'[c].outcome = KEY_SOURCE_UNAVAILABLE_ERROR
      ]_vars

\* C19's case: two calls have missed the cache; one fetch is in flight and the other
\* call awaits it.
C19_Witness ==
    \E c, d \in Callers :
        /\ c # d
        /\ getkey[c].pc = "fetch" /\ getkey[c].fetches = 1
        /\ getkey[d].pc = "await" /\ getkey[d].fetches = 0

\* The request has an authenticated user: HankoAuthMiddleware has set request.hanko_user
\* and validate_token returned the user of the request's token.
Authenticated(h, req) ==
    /\ req.middleware
    /\ h.user_loaded
    /\ Truthy(h.token)
    /\ h.validation.raised = None
    /\ h.validation.user # NoObject
    /\ h.user = h.validation.user

\* The request has an OSM connection: request.osm_connection is set and its cookie
\* decrypts to a connection.
HasOsmConnection(req, secret) ==
    req.middleware /\ CookieConnection(req, secret) # NoObject

\* C20: the view behind @login_required is invoked only for a request with an
\* authenticated user, and the one behind @osm_required only for a request with an OSM
\* connection; a view that is not invoked has answered 401 (the login check failed)
\* or 403 (the connection check failed); and under @login_required over
\* @osm_required a request without an authenticated user gets 401, whatever its
\* `osm_connection` cookie.
C20_DecoratorsGuardTheView ==
    LET h == handling IN
    h.fn = VIEW
    => /\ (h.view_invoked /\ Decorated(h, LOGIN_REQUIRED)) => Authenticated(h, request)
       /\ (h.view_invoked /\ Decorated(h, OSM_REQUIRED))
             => HasOsmConnection(request, cookie_secret)
       /\ (h.pc = "done" /\ ~h.view_invoked)
             => \/ /\ ResponseStatus(h) = 401 /\ Decorated(h, LOGIN_REQUIRED)
                   /\ ~Authenticated(h, request)
                \/ /\ ResponseStatus(h) = 403 /\ Decorated(h, OSM_REQUIRED)
                   /\ ~HasOsmConnection(request, cookie_secret)
       /\ (h.pc = "done" /\ h.view_invoked) => ResponseStatus(h) = 200
       /\ (h.pc = "done" /\ h.decorators = <<LOGIN_REQUIRED>>)
             => (h.view_invoked <=> Authenticated(h, request))
       /\ (h.pc = "done" /\ h.decorators = <<LOGIN_REQUIRED, OSM_REQUIRED>>
             /\ ~Authenticated(h, request))
             => ResponseStatus(h) = 401 /\ ~h.view_invoked /\ ~h.osm_loaded

\* C20's case: a request with an invalid token and a valid `osm_connection` cookie came
\* to a view under @login_required over @osm_required, and got 401.
C20_Witness ==
    /\ handling.pc = "done"
    /\ handling.fn = VIEW
    /\ handling.decorators = <<LOGIN_REQUIRED, OSM_REQUIRED>>
    /\ request.middleware
    /\ handling.validation.raised = TOKEN_EXPIRED_ERROR
    /\ CookieConnection(request, cookie_secret) \in OSMConnections
    /\ ResponseStatus(handling) = 401
    /\ ~handling.view_invoked

\* C22: a django get_mapped_user_id call that finds no row for its pair, with
\* auto_create set and no user_id_generator, ends with ValueError at that point: it
\* has invoked no callback, it never reaches the INSERT, and the table is as it was.
C22_GeneratorRequired ==
    [][ \A c \in Callers :
          LET f == calls[c]
              g == calls'[c]
          IN ( /\ framework = DJANGO /\ f.fn = GET_MAPPED_USER_ID
               /\ f.pc = "select" /\ g # f
               /\ RowsOf(table, f.hanko_user_id, f.app_name) = {}
               /\ f.auto_create /\ ~f.user_id_generator )
             => /\ g.pc = "done"
                /\ g.outcome = VALUE_ERROR
                /\ g.invoked = {}
                /\ table' = table
      ]_vars

\* C22's case: a django call for a pair without a row ended with ValueError.
C22_Witness ==
    \E c \in Callers :
        /\ framework = DJANGO
        /\ calls[c].pc = "done"
        /\ calls[c].fn = GET_MAPPED_USER_ID
        /\ calls[c].outcome = VALUE_ERROR
        /\ RowsOf(table, calls[c].hanko_user_id, calls[c].app_name) = {}

\* No call is in progress.
Terminal == \A c \in Callers : calls[c].pc \in {"idle", "done"}

\* The users that user_creator_fn has created and no mapping row refers to.
Orphans == {u \in app_users : \A r \in table : r.app_user_id # u}

\* The calls, in progress or ended, that have invoked user_creator_fn for the pair.
CreatorInvokedFor(hanko_user_id, app_name) ==
    {c \in Callers : /\ calls[c].fn = GET_MAPPED_USER_ID
                     /\ calls[c].hanko_user_id = hanko_user_id
                     /\ calls[c].app_name = app_name
                     /\ USER_CREATOR \in calls[c].invoked}

\* C25: when no call is in progress, every user that user_creator_fn has created is
\* the app_user_id of a mapping row; and of the concurrent resolutions of one
\* (hanko_user_id, app_name), at most one has invoked user_creator_fn.
C25_NoOrphanedAppUser ==
    /\ Terminal => Orphans = {}
    /\ \A hanko_user_id \in HankoUserIds, app_name \in AppNames :
          Cardinality(CreatorInvokedFor(hanko_user_id, app_name)) <= 1

\* Every caller that an accessor has answered got the one instance constructed.
SameInstance(fn) ==
    \A c \in Callers :
        (accessor[c].pc = "done" /\ accessor[c].fn = fn)
        => accessor[c].got # NoInstance /\ accessor[c].got = singletons[fn].global

\* C24: for get_jwt_validator and for get_cookie_crypto, in every interleaving of
\* concurrent calls, at most one instance is ever constructed and every caller
\* receives that instance.
C24_TrueSingletons ==
    \A fn \in SingletonAccessors :
        /\ singletons[fn].constructed <= 1
        /\ SameInstance(fn)
        /\ \A c, d \in Callers :
              (accessor[c].pc = "done" /\ accessor[d].pc = "done"
                 /\ accessor[c].fn = fn /\ accessor[d].fn = fn)
              => accessor[c].got = accessor[d].got

\* C21: the response.set_cookie call of set_osm_cookie has key "osm_connection", the
\* encrypted connection as value, httponly set, path "/", and secure, samesite and
\* domain as the config gives them; it has no max_age when the connection has no
\* expires_at, and otherwise max_age is the whole number of seconds between the
\* clock's reading and expires_at, the fraction dropped, so that a cookie set before
\* the expiry does not live beyond it.
C21_MaxAgeFromExpiry ==
    LET h == handling
        call == h.set_cookie
        x == h.osm_connection
    IN (h.pc = "done" /\ h.fn = SET_OSM_COOKIE)
       => /\ call # NoObject
          /\ call.key = "osm_connection"
          /\ call.value = cookie_jar
          /\ call.httponly = TRUE
          /\ call.path = "/"
          /\ call.secure = h.config.cookie_secure
          /\ call.samesite = h.config.cookie_samesite
          /\ call.domain = h.config.cookie_domain
          /\ IF x.expires_at = NoObject
             THEN call.max_age = NoObject
             ELSE LET delta == x.expires_at.ticks - h.utcnow IN
                  /\ call.max_age # NoObject
                  /\ delta >= 0
                        => /\ call.max_age.seconds >= 0
                           /\ call.max_age.seconds * TicksPerSecond <= delta
                           /\ delta < (call.max_age.seconds + 1) * TicksPerSecond
                  /\ delta < 0
                        => /\ call.max_age.seconds <= 0
                           /\ call.max_age.seconds * TicksPerSecond >= delta
                           /\ delta > (call.max_age.seconds - 1) * TicksPerSecond

\* C21's case: set_osm_cookie ran a fraction of a second more than some whole
\* seconds before expires_at, and max_age is those whole seconds.
C21_Witness ==
    LET h == handling IN
    /\ h.pc = "done"
    /\ h.fn = SET_OSM_COOKIE
    /\ h.osm_connection.expires_at # NoObject
    /\ h.osm_connection.expires_at.ticks - h.utcnow > TicksPerSecond
    /\ (h.osm_connection.expires_at.ticks - h.utcnow) % TicksPerSecond # 0
    /\ h.set_cookie.max_age # NoObject
    /\ h.set_cookie.max_age.seconds * TicksPerSecond
          < h.osm_connection.expires_at.ticks - h.utcnow

\* A django view is handling the request (the same request in the next state too).
InView == handling.fn = VIEW /\ handling.pc \notin {"idle", "done"}

\* What holds of request.hotosm at any moment of a view: validate_token and
\* decrypt_osm_connection were called at most once, and only in loading the
\* property; a loaded user is what validate_token returned (None when it raised or
\* there was no token); every read in the view's body gave the loaded value.
Memoized(h) ==
    h.fn = VIEW
    => /\ h.validations <= 1
       /\ h.decryptions <= 1
       /\ h.validations = 1 => (h.user_loaded \/ h.pc = "key")
       /\ h.decryptions = 1 => h.osm_loaded
       /\ h.user_loaded => h.user = h.validation.user
       /\ h.user_reads > 0 => (h.user_loaded /\ h.user_read = {h.user})
       /\ h.osm_reads > 0 => (h.osm_loaded /\ h.osm_read = {h.osm})
       /\ h.user_reads = 0 => h.user_read = {}
       /\ h.osm_reads = 0 => h.osm_read = {}

\* C23: within a request, request.hotosm.user is loaded only when it (or
\* request.hanko_user) is accessed and not loaded yet, and request.hotosm.osm likewise;
\* validate_token and decrypt_osm_connection are called at most once per request;
\* once loaded, the value stays and every read returns it, None after a failed
\* validation included.
C23_LazyAndMemoized ==
    [][ /\ Memoized(handling')
        /\ InView
           => /\ handling'.fn = VIEW /\ request' = request
              /\ (handling.pc = "wrapper" /\ handling'.pc = "token")
                    => /\ ~handling.user_loaded
                       /\ handling.stack = <<>> \/ Head(handling.stack) = LOGIN_REQUIRED
              /\ handling'.validations > handling.validations => ~handling.user_loaded
              /\ handling'.decryptions > handling.decryptions
                    => /\ ~handling.osm_loaded
                       /\ handling.pc = "wrapper"
                       /\ handling.stack = <<>> \/ Head(handling.stack) = OSM_REQUIRED
              /\ handling.user_loaded
                    => /\ handling'.user_loaded
                       /\ handling'.user = handling.user
                       /\ handling'.validations = handling.validations
              /\ handling.osm_loaded
                    => /\ handling'.osm_loaded
                       /\ handling'.osm = handling.osm
                       /\ handling'.decryptions = handling.decryptions
      ]_vars

\* C23's case: a view behind @osm_required read request.hotosm.user twice and
\* request.hotosm.osm twice; the token had expired, so both reads of the user gave
\* None after one validation, and the cookie was decrypted once.
C23_Witness ==
    LET h == handling IN
    /\ h.pc = "done"
    /\ h.fn = VIEW
    /\ h.decorators = <<OSM_REQUIRED>>
    /\ h.validation.raised = TOKEN_EXPIRED_ERROR
    /\ h.validations = 1
    /\ h.user_reads = 2
    /\ h.user_read = {NoObject}
    /\ h.decryptions = 1
    /\ h.osm_reads = 2
    /\ h.osm_read = {h.osm}
    /\ h.osm \in OSMConnections

=============================================================================
